---- MODULE Spec2Model ----
(***************************************************************************)
(* BLS signature engine of solana-bls-signatures (signature.rs): the       *)
(* sequential and parallel aggregation of signatures and the aggregate     *)
(* verification, over a prime-order group written additively.              *)
(*                                                                         *)
(* A group element is written as its scalar multiple of the generator:     *)
(* the G2 point k*g2 is the number k in 0..GroupOrder-1, the G1 point      *)
(* k*g1 likewise; 0 is the point at infinity. The pairing of a*g1 and b*g2 *)
(* is gt^(a*b), so two pairings are equal exactly when the products of the *)
(* scalars are equal modulo the group order.                               *)
(***************************************************************************)
EXTENDS Integers, Sequences, FiniteSets, TLC

VARIABLES signatures, public_keys, message, self, pos, ret

\* join : the call of par_aggregate_verify in progress, step by step
\* text : a string handed to from_str, or returned by to_string
VARIABLES join, text

\* envelope : an Envelope of the offchain-message crate
\* signers  : the signers handed to Envelope::sign_all
\* data     : the bytes handed to Envelope::deserialize
VARIABLES envelope, signers, data

\* I        : the counter `static I: AtomicU64` of Address::new_unique
\* threads  : the calls of new_unique in progress, one per thread
\* returned : the addresses returned so far, in the order of the returns
VARIABLES I, threads, returned, std

envelopeVars == <<envelope, signers, data>>
addressVars == <<I, threads, returned, std>>

\* the variables the calls of the engine as a whole leave alone
others == <<join, text, envelopeVars, addressVars>>

vars == <<signatures, public_keys, message, self, pos, ret, others>>

(***************************************************************************)
(* Bounds                                                                  *)
(***************************************************************************)
\* the group order is the smallest prime that is at least MinOrder
MinOrder == 3
\* longest list of signatures handed to the aggregation functions
MaxLen == 3
\* longest list of public keys / signatures handed to aggregate_verify
MaxKeys == 2
\* number of distinct messages
NumMessages == 2
\* number of threads that call Address::new_unique
NumThreads == 2
\* number of calls of Address::new_unique in one behaviour
MaxCalls == 3
\* most signers of an off-chain message
MaxSigners == 2

(***************************************************************************)
(* The groups G1 and G2 (blstrs), by discrete logarithm                    *)
(***************************************************************************)
IsPrime(n) == n > 1 /\ \A d \in 2..(n - 1) : n % d # 0

GroupOrder == CHOOSE q \in MinOrder..(2 * MinOrder) :
                 IsPrime(q) /\ \A r \in MinOrder..(q - 1) : ~IsPrime(r)

Points == 0..(GroupOrder - 1)

\* G2Projective::identity() / G1Projective::identity()
Identity == 0

\* `a.0 += b.0`
Add(a, b) == (a + b) % GroupOrder

Messages == 1..NumMessages

(***************************************************************************)
(* Result values                                                           *)
(***************************************************************************)
EmptyAggregation == "EmptyAggregation"
PointDecodingError == "PointDecodingError"

OkPoint(p) == [ok |-> TRUE, pt |-> p, err |-> "none"]
ErrPoint(e) == [ok |-> FALSE, pt |-> Identity, err |-> e]

OkUnit == [ok |-> TRUE, err |-> "none"]
ErrUnit(e) == [ok |-> FALSE, err |-> e]

OkBool(b) == [ok |-> TRUE, b |-> b, err |-> "none"]
ErrBool(e) == [ok |-> FALSE, b |-> FALSE, err |-> e]

\* a plausible slip: the decoder does not look at the lowest bit
AffineDecodeLenient(b) ==
    IF b < 2 * GroupOrder THEN OkPoint(b \div 2)
    ELSE ErrPoint(PointDecodingError)

(***************************************************************************)
(* The three representations of a point and their conversions              *)
(***************************************************************************)
\* uncompressed encoding of a point: the odd numbers below 2*GroupOrder;
\* every other byte value, the all-zero array (0) included, is no point
AffineEncode(p) == 2 * p + 1
AffineDecode(b) ==
    IF b % 2 = 1 /\ b < 2 * GroupOrder THEN OkPoint((b - 1) \div 2)
    ELSE ErrPoint(PointDecodingError)

\* compressed encoding of a point: 1..GroupOrder; 0 is the all-zero array
CompressedEncode(p) == p + 1
CompressedDecode(b) ==
    IF b >= 1 /\ b <= GroupOrder THEN OkPoint(b - 1)
    ELSE ErrPoint(PointDecodingError)

Projective(p) == [form |-> "projective", v |-> p]
Affine(b) == [form |-> "affine", v |-> b]
Compressed(b) == [form |-> "compressed", v |-> b]

\* a plausible slip: Default gives the encoding of the identity element
AffineDefaultIsIdentity == Affine(AffineEncode(Identity))

\* Signature::default(), SignatureCompressed::default()
AffineDefault == Affine(0)
CompressedDefault == Compressed(0)

\* AsSignatureProjective::try_as_projective / AsPubkeyProjective
try_as_projective(x) ==
    CASE x.form = "projective" -> OkPoint(x.v)
      [] x.form = "affine" -> AffineDecode(x.v)
      [] x.form = "compressed" -> CompressedDecode(x.v)


(***************************************************************************)
(* Inputs of the engine                                                    *)
(***************************************************************************)
\* byte values held by the Affine / Compressed forms that are handed in:
\* the all-zero default and the encoding of one point
AffineInputs == {0, AffineEncode(1)}
CompressedInputs == {0, CompressedEncode(GroupOrder - 1)}

\* anything that implements AsSignatureProjective
SigInputs ==
    {Projective(p) : p \in Points}
        \cup {Affine(b) : b \in AffineInputs}
        \cup {Compressed(b) : b \in CompressedInputs}

\* the inputs of aggregate_verify: native points and the all-zero default
VerifyInputs == {Projective(p) : p \in Points} \cup {AffineDefault}

ListsUpTo(S, n) == UNION {[1..k -> S] : k \in 0..n}

AllConvert(xs) == \A i \in 1..Len(xs) : try_as_projective(xs[i]).ok

(***************************************************************************)
(* SignatureProjective: sequential aggregation                             *)
(***************************************************************************)
\* SignatureProjective::identity()
identity == Identity

\* a plausible slip: the first element of the list is skipped
RECURSIVE aggregate_with_skip_first(_, _)
aggregate_with_skip_first(acc, sigs) ==
    IF Len(sigs) <= 1 THEN [self |-> acc, res |-> OkUnit]
    ELSE LET p == try_as_projective(sigs[2])
         IN  IF ~p.ok THEN [self |-> acc, res |-> ErrUnit(p.err)]
             ELSE aggregate_with_skip_first(Add(acc, p.pt), Tail(sigs))

\* a plausible slip: `self.0 = ...` is written for `self.0 += ...`
RECURSIVE aggregate_with_overwrites(_, _)
aggregate_with_overwrites(acc, sigs) ==
    IF sigs = <<>> THEN [self |-> acc, res |-> OkUnit]
    ELSE LET p == try_as_projective(Head(sigs))
         IN  IF ~p.ok THEN [self |-> acc, res |-> ErrUnit(p.err)]
             ELSE aggregate_with_overwrites(p.pt, Tail(sigs))

\* a plausible slip: only elements already in the native form are added
RECURSIVE aggregate_with_native_only(_, _)
aggregate_with_native_only(acc, sigs) ==
    IF sigs = <<>> THEN [self |-> acc, res |-> OkUnit]
    ELSE LET p == try_as_projective(Head(sigs))
         IN  IF ~p.ok THEN [self |-> acc, res |-> ErrUnit(p.err)]
             ELSE IF Head(sigs).form # "projective"
             THEN aggregate_with_native_only(acc, Tail(sigs))
             ELSE aggregate_with_native_only(Add(acc, p.pt), Tail(sigs))

\* a plausible slip: an element that does not convert is skipped
RECURSIVE aggregate_with_skips_invalid(_, _)
aggregate_with_skips_invalid(acc, sigs) ==
    IF sigs = <<>> THEN [self |-> acc, res |-> OkUnit]
    ELSE LET p == try_as_projective(Head(sigs))
         IN  IF ~p.ok THEN aggregate_with_skips_invalid(acc, Tail(sigs))
             ELSE aggregate_with_skips_invalid(Add(acc, p.pt), Tail(sigs))

\* aggregate_with(&mut self, signatures): the value of self after the call
\* and the returned Result<(), BlsError>; `?` leaves the loop at the first
\* element that does not convert, with self as the loop left it
RECURSIVE aggregate_with(_, _)
aggregate_with(acc, sigs) ==
    IF sigs = <<>> THEN [self |-> acc, res |-> OkUnit]
    ELSE LET p == try_as_projective(Head(sigs))
         IN  IF ~p.ok THEN [self |-> acc, res |-> ErrUnit(p.err)]
             ELSE aggregate_with(Add(acc, p.pt), Tail(sigs))

\* a plausible slip: an empty list aggregates to the identity element
aggregate_empty_is_identity(sigs) ==
    IF sigs # <<>>
    THEN LET first == try_as_projective(Head(sigs))
         IN  IF ~first.ok THEN ErrPoint(first.err)
             ELSE LET r == aggregate_with(first.pt, Tail(sigs))
                  IN  IF ~r.res.ok THEN ErrPoint(r.res.err) ELSE OkPoint(r.self)
    ELSE OkPoint(identity)

\* a plausible slip: the aggregate starts from the identity element and only
\* the rest of the list is folded in
aggregate_drops_first(sigs) ==
    IF sigs # <<>>
    THEN LET first == try_as_projective(Head(sigs))
         IN  IF ~first.ok THEN ErrPoint(first.err)
             ELSE LET r == aggregate_with(identity, Tail(sigs))
                  IN  IF ~r.res.ok THEN ErrPoint(r.res.err) ELSE OkPoint(r.self)
    ELSE ErrPoint(EmptyAggregation)

\* aggregate(signatures)
aggregate(sigs) ==
    IF sigs # <<>>
    THEN LET first == try_as_projective(Head(sigs))
         IN  IF ~first.ok THEN ErrPoint(first.err)
             ELSE LET r == aggregate_with(first.pt, Tail(sigs))
                  IN  IF ~r.res.ok THEN ErrPoint(r.res.err) ELSE OkPoint(r.self)
    ELSE ErrPoint(EmptyAggregation)

(***************************************************************************)
(* SignatureProjective: parallel aggregation (rayon map + reduce)          *)
(***************************************************************************)
\* the identity closure of reduce: `|| Ok(SignatureProjective::identity())`
reduce_identity == OkPoint(identity)

\* a plausible slip: an error of the right operand is dropped
reduce_op_drops_error(a, b) ==
    IF ~a.ok THEN a
    ELSE IF ~b.ok THEN a
    ELSE OkPoint(Add(a.pt, b.pt))

\* the combining closure of reduce: `|a, b| { let mut a = a?; let b = b?;
\* a.0 += &b.0; Ok(a) }`
reduce_op(a, b) ==
    IF ~a.ok THEN a
    ELSE IF ~b.ok THEN b
    ELSE OkPoint(Add(a.pt, b.pt))

\* one sequential fold of the mapped items lo..hi, started from a seed
RECURSIVE reduce_fold(_, _, _, _)
reduce_fold(xs, lo, hi, acc) ==
    IF hi < lo THEN acc
    ELSE reduce_fold(xs, lo + 1, hi, reduce_op(acc, try_as_projective(xs[lo])))

\* every result reduce can give on the items lo..hi: the range is folded as
\* one piece or split at any point into two sub-ranges that are reduced on
\* their own and joined left to right, and a further identity seed may be
\* joined in on either side
RECURSIVE reduce(_, _, _)
reduce(xs, lo, hi) ==
    IF hi < lo THEN {reduce_identity}
    ELSE LET leaf == reduce_fold(xs, lo, hi, reduce_identity)
         IN  {leaf, reduce_op(reduce_identity, leaf), reduce_op(leaf, reduce_identity)}
                 \cup UNION {{reduce_op(a, b) : a \in reduce(xs, lo, mid),
                                                b \in reduce(xs, mid + 1, hi)} :
                             mid \in lo..(hi - 1)}

\* a plausible slip: the is_empty check is missing
par_aggregate_no_empty_check(sigs) == reduce(sigs, 1, Len(sigs))

\* par_aggregate(signatures): the set of results the reduction can give
par_aggregate(sigs) ==
    IF sigs = <<>> THEN {ErrPoint(EmptyAggregation)}
    ELSE reduce(sigs, 1, Len(sigs))

\* a plausible slip: `self.0 = ...` is written for `self.0 += ...`
par_aggregate_with_overwrites(acc, sigs) ==
    {IF ~a.ok THEN [self |-> acc, res |-> ErrUnit(a.err)]
     ELSE [self |-> a.pt, res |-> OkUnit] : a \in par_aggregate(sigs)}

\* par_aggregate_with(&mut self, signatures): as aggregate_with, one record
\* per result of the reduction
par_aggregate_with(acc, sigs) ==
    {IF ~a.ok THEN [self |-> acc, res |-> ErrUnit(a.err)]
     ELSE [self |-> Add(acc, a.pt), res |-> OkUnit] : a \in par_aggregate(sigs)}


(***************************************************************************)
(* Keypair, hash-to-curve and the pubkey engine                            *)
(***************************************************************************)
\* secret scalars of keypairs
Secrets == 1..(GroupOrder - 1)

\* hash_message_to_point: a fixed point of G2 for each message, never the
\* point at infinity, different messages to different points
HashToPoint(m) == ((m - 1) % (GroupOrder - 1)) + 1

\* PubkeyProjective::from_secret: secret * g1
from_secret(sk) == sk % GroupOrder

\* Keypair::sign / SecretKey::sign: secret * H(message)
sign(sk, m) == (sk * HashToPoint(m)) % GroupOrder

\* PubkeyProjective::aggregate_with
RECURSIVE pubkey_aggregate_with(_, _)
pubkey_aggregate_with(acc, pks) ==
    IF pks = <<>> THEN [self |-> acc, res |-> OkUnit]
    ELSE LET p == try_as_projective(Head(pks))
         IN  IF ~p.ok THEN [self |-> acc, res |-> ErrUnit(p.err)]
             ELSE pubkey_aggregate_with(Add(acc, p.pt), Tail(pks))

\* PubkeyProjective::aggregate
pubkey_aggregate(pks) ==
    IF pks # <<>>
    THEN LET first == try_as_projective(Head(pks))
         IN  IF ~first.ok THEN ErrPoint(first.err)
             ELSE LET r == pubkey_aggregate_with(first.pt, Tail(pks))
                  IN  IF ~r.res.ok THEN ErrPoint(r.res.err) ELSE OkPoint(r.self)
    ELSE ErrPoint(EmptyAggregation)

\* PubkeyProjective::par_aggregate
pubkey_par_aggregate(pks) ==
    IF pks = <<>> THEN {ErrPoint(EmptyAggregation)}
    ELSE reduce(pks, 1, Len(pks))

\* PubkeyProjective::_verify_signature: the pairing check
\* e(pubkey, H(message)) = e(g1, signature)
verify_signature(pk, sig, m) == (pk * HashToPoint(m)) % GroupOrder = sig

\* a plausible slip: the two `?` are written in the other order
verify_aggregates_signature_first(aggregate_pubkey, aggregate_signature, m) ==
    IF ~aggregate_signature.ok
    THEN [res |-> ErrBool(aggregate_signature.err), pairings |-> 0]
    ELSE IF ~aggregate_pubkey.ok
    THEN [res |-> ErrBool(aggregate_pubkey.err), pairings |-> 0]
    ELSE [res |-> OkBool(verify_signature(aggregate_pubkey.pt,
                                          aggregate_signature.pt, m)),
          pairings |-> 1]

(***************************************************************************)
(* SignatureProjective: aggregate verification                             *)
(***************************************************************************)
\* what the two `?` and the pairing check make of the two aggregates: the
\* Result<bool, BlsError> and the number of pairing checks performed
verify_aggregates(aggregate_pubkey, aggregate_signature, m) ==
    IF ~aggregate_pubkey.ok
    THEN [res |-> ErrBool(aggregate_pubkey.err), pairings |-> 0]
    ELSE IF ~aggregate_signature.ok
    THEN [res |-> ErrBool(aggregate_signature.err), pairings |-> 0]
    ELSE [res |-> OkBool(verify_signature(aggregate_pubkey.pt,
                                          aggregate_signature.pt, m)),
          pairings |-> 1]

\* a plausible slip: the lists are taken to pair up key by key, and lists of
\* different lengths do not verify
aggregate_verify_pairwise(pks, sigs, m) ==
    LET aggregate_pubkey == pubkey_aggregate(pks)
    IN  IF ~aggregate_pubkey.ok
        THEN [res |-> ErrBool(aggregate_pubkey.err), pairings |-> 0]
        ELSE IF aggregate(sigs).ok /\ Len(pks) # Len(sigs)
        THEN [res |-> OkBool(FALSE), pairings |-> 0]
        ELSE verify_aggregates(aggregate_pubkey, aggregate(sigs), m)

\* aggregate_verify(public_keys, signatures, message)
aggregate_verify(pks, sigs, m) ==
    LET aggregate_pubkey == pubkey_aggregate(pks)
    IN  IF ~aggregate_pubkey.ok
        THEN [res |-> ErrBool(aggregate_pubkey.err), pairings |-> 0]
        ELSE verify_aggregates(aggregate_pubkey, aggregate(sigs), m)

\* a plausible slip: the result of the signature aggregation is looked at
\* before the result of the public-key aggregation
par_aggregate_verify_signature_first(pks, sigs, m) ==
    {IF ~aggregate_signature_res.ok
     THEN [res |-> ErrBool(aggregate_signature_res.err), pairings |-> 0]
     ELSE verify_aggregates(aggregate_pubkey_res, aggregate_signature_res, m) :
        aggregate_pubkey_res \in pubkey_par_aggregate(pks),
        aggregate_signature_res \in par_aggregate(sigs)}

\* par_aggregate_verify(public_keys, signatures, message): rayon::join runs
\* both aggregations, then the two results are looked at in order
par_aggregate_verify(pks, sigs, m) ==
    {verify_aggregates(aggregate_pubkey_res, aggregate_signature_res, m) :
        aggregate_pubkey_res \in pubkey_par_aggregate(pks),
        aggregate_signature_res \in par_aggregate(sigs)}


(***************************************************************************)
(* A caller of the engine                                                  *)
(*                                                                         *)
(* signatures, public_keys, message : the arguments the caller holds       *)
(* self : the caller's aggregate, the `&mut self` of aggregate_with        *)
(* pos  : how many elements of signatures were handed to aggregate_with    *)
(* ret  : the last call: its name, self before it, the list passed, the    *)
(*        returned Result and the number of pairing checks it performed    *)
(***************************************************************************)
Call(op, self0, arg, res, pairings) ==
    [op |-> op, self0 |-> self0, arg |-> arg, res |-> res, pairings |-> pairings]

NoCall == Call("none", identity, <<>>, OkUnit, 0)

\* no call of par_aggregate_verify is in progress
NoJoin ==
    [pc |-> "idle", done |-> {},
     aggregate_pubkey_res |-> ErrPoint("pending"),
     aggregate_signature_res |-> ErrPoint("pending"),
     pairings |-> 0]

\* no envelope, no signers, no bytes
EnvelopeIdle ==
    /\ envelope = [signatures |-> <<>>, message |-> <<>>]
    /\ signers = <<>>
    /\ data = <<>>

\* `AtomicU64::new(1)`, no call of new_unique yet
AddressIdle ==
    /\ I = 1
    /\ threads = [t \in 1..NumThreads |-> [pc |-> "idle", i |-> 0, seen |-> 0]]
    /\ returned = <<>>
    /\ std = TRUE

\* the state of what a specification does not use
OthersIdle == join = NoJoin /\ text = <<>> /\ EnvelopeIdle /\ AddressIdle

\* the caller holds a list of signatures and an aggregate seeded with the
\* identity element
Init ==
    /\ signatures \in ListsUpTo(SigInputs, MaxLen)
    /\ public_keys = <<>>
    /\ message = 1
    /\ self = identity
    /\ pos = 0
    /\ ret = NoCall
    /\ OthersIdle

\* `let mut aggregate = signature0;`: the aggregate is seeded with the first
\* signature instead of the identity element
SeedWithFirst ==
    /\ ret.op = "none"
    /\ pos = 0
    /\ signatures # <<>>
    /\ try_as_projective(signatures[1]).ok
    /\ self' = try_as_projective(signatures[1]).pt
    /\ pos' = 1
    /\ UNCHANGED <<others, signatures, public_keys, message, ret>>

\* SignatureProjective::aggregate(&signatures)
CallAggregate ==
    /\ ret' = Call("aggregate", self, signatures, aggregate(signatures), 0)
    /\ UNCHANGED <<others, signatures, public_keys, message, self, pos>>

\* SignatureProjective::par_aggregate(&signatures)
CallParAggregate ==
    /\ \E r \in par_aggregate(signatures) :
          ret' = Call("par_aggregate", self, signatures, r, 0)
    /\ UNCHANGED <<others, signatures, public_keys, message, self, pos>>

\* self.aggregate_with(chunk), chunk the next k signatures
CallAggregateWith ==
    \E k \in 0..(Len(signatures) - pos) :
        LET chunk == SubSeq(signatures, pos + 1, pos + k)
            r == aggregate_with(self, chunk)
        IN  /\ self' = r.self
            /\ pos' = pos + k
            /\ ret' = Call("aggregate_with", self, chunk, r.res, 0)
            /\ UNCHANGED <<others, signatures, public_keys, message>>

\* self.par_aggregate_with(chunk), chunk the next k signatures
CallParAggregateWith ==
    \E k \in 0..(Len(signatures) - pos) :
        LET chunk == SubSeq(signatures, pos + 1, pos + k)
        IN  \E r \in par_aggregate_with(self, chunk) :
                /\ self' = r.self
                /\ pos' = pos + k
                /\ ret' = Call("par_aggregate_with", self, chunk, r.res, 0)
                /\ UNCHANGED <<others, signatures, public_keys, message>>

Next ==
    \/ SeedWithFirst
    \/ CallAggregate
    \/ CallParAggregate
    \/ CallAggregateWith
    \/ CallParAggregateWith

Spec == Init /\ [][Next]_vars

\* the caller holds a list of public keys, a list of signatures and a message
InitVerify ==
    /\ public_keys \in ListsUpTo(VerifyInputs, MaxKeys)
    /\ signatures \in ListsUpTo(VerifyInputs, MaxKeys)
    /\ message \in Messages
    /\ self = identity
    /\ pos = 0
    /\ ret = NoCall
    /\ OthersIdle

\* SignatureProjective::aggregate_verify(&public_keys, &signatures, message)
CallAggregateVerify ==
    /\ LET r == aggregate_verify(public_keys, signatures, message)
       IN  ret' = Call("aggregate_verify", self, signatures, r.res, r.pairings)
    /\ UNCHANGED <<others, signatures, public_keys, message, self, pos>>

\* SignatureProjective::par_aggregate_verify(&public_keys, &signatures, message)
CallParAggregateVerify ==
    /\ \E r \in par_aggregate_verify(public_keys, signatures, message) :
          ret' = Call("par_aggregate_verify", self, signatures, r.res, r.pairings)
    /\ UNCHANGED <<others, signatures, public_keys, message, self, pos>>

NextVerify ==
    \/ CallAggregateVerify
    \/ CallParAggregateVerify

SpecVerify == InitVerify /\ [][NextVerify]_vars


(***************************************************************************)
(* Properties                                                              *)
(***************************************************************************)
Orderings(n) == {f \in [1..n -> 1..n] : \A i, j \in 1..n : f[i] = f[j] => i = j}

Permuted(xs, f) == [i \in 1..Len(xs) |-> xs[f[i]]]

\* the group sum of a list of points that all convert
RECURSIVE GroupSum(_)
GroupSum(xs) ==
    IF xs = <<>> THEN Identity
    ELSE (try_as_projective(Head(xs)).pt + GroupSum(Tail(xs))) % GroupOrder

\* C1: on a non-empty list par_aggregate returns what aggregate returns on
\* that list, the same point or the same error, however the reduction splits
\* the list and seeds its folds
C1_ParAggregateEqualsAggregate ==
    (ret.op = "par_aggregate" /\ ret.arg # <<>>) => ret.res = aggregate(ret.arg)

C1_Witness ==
    /\ ret.op = "par_aggregate"
    /\ Len(ret.arg) = MaxLen
    /\ ret.res.ok
    /\ ret.res.pt # Identity
    /\ \E i \in 1..Len(ret.arg) : ret.arg[i].form # "projective"

\* C2: aggregate and par_aggregate of the empty list return
\* Err(EmptyAggregation), never Ok(identity)
C2_EmptyListRejected ==
    (ret.op \in {"aggregate", "par_aggregate"} /\ ret.arg = <<>>)
        => ret.res = ErrPoint(EmptyAggregation)

C2_Witness ==
    /\ ret.op = "par_aggregate"
    /\ ret.arg = <<>>
    /\ ~ret.res.ok

\* C3: for a non-empty list of signatures that all convert, aggregate of
\* every permutation of the list returns the same point
C3_AggregateCommutes ==
    (ret.op = "aggregate" /\ ret.arg # <<>> /\ AllConvert(ret.arg))
        => \A f \in Orderings(Len(ret.arg)) :
               aggregate(Permuted(ret.arg, f)) = ret.res

C3_Witness ==
    /\ ret.op = "aggregate"
    /\ Len(ret.arg) = MaxLen
    /\ AllConvert(ret.arg)
    /\ \A i, j \in 1..Len(ret.arg) :
          i # j => try_as_projective(ret.arg[i]).pt # try_as_projective(ret.arg[j]).pt
    /\ ret.res.ok

\* C9 as claimed: par_aggregate_with returns what aggregate_with returns
\* from the same self on the same list, the empty list included, and leaves
\* self holding the same value
C9_ParAggregateWithEqualsAggregateWith ==
    ret.op = "par_aggregate_with"
        => LET r == aggregate_with(ret.self0, ret.arg)
           IN  r.res = ret.res /\ r.self = self

\* C10: when a non-empty list of signatures that all convert has been handed
\* to aggregate_with chunk by chunk, from the identity element or from the
\* first signature, the aggregate equals aggregate of the whole list
C10_IncrementalEqualsOneShot ==
    (pos = Len(signatures) /\ signatures # <<>> /\ AllConvert(signatures))
        => OkPoint(self) = aggregate(signatures)

C10_Witness ==
    /\ pos = Len(signatures)
    /\ Len(signatures) = MaxLen
    /\ AllConvert(signatures)
    /\ ret.op = "aggregate_with"
    /\ Len(ret.arg) = 1
    /\ ret.self0 # Identity
    /\ self # Identity
    /\ self # ret.self0


\* keypairs with the secrets ks hold the public keys, and signature i is
\* keypair i's signature over signed[i]
SignedBy(ks, signed) ==
    /\ Len(public_keys) = Len(ks)
    /\ Len(signatures) = Len(ks)
    /\ \A i \in 1..Len(ks) :
          /\ public_keys[i] = Projective(from_secret(ks[i]))
          /\ signatures[i] = Projective(sign(ks[i], signed[i]))

KeypairLists == UNION {[1..n -> Secrets] : n \in 1..MaxKeys}

\* every signer signed the message m
AllSigned(m) ==
    \E ks \in KeypairLists : SignedBy(ks, [i \in 1..Len(ks) |-> m])

\* every signer signed the message m, but for one who signed another message
OneResigned(m) ==
    \E ks \in KeypairLists : \E j \in 1..Len(ks) : \E other \in Messages \ {m} :
        SignedBy(ks, [i \in 1..Len(ks) |-> IF i = j THEN other ELSE m])

\* C4: when N >= 1 keypairs each signed the same message, aggregate_verify
\* of their public keys, their signatures and that message returns Ok(true)
C4_AggregateVerifyAccepts ==
    (ret.op = "aggregate_verify" /\ AllSigned(message)) => ret.res = OkBool(TRUE)

C4_Witness ==
    /\ ret.op = "aggregate_verify"
    /\ AllSigned(message)
    /\ Len(public_keys) = MaxKeys
    /\ public_keys[1] # public_keys[2]
    /\ ret.res.ok
    /\ ret.pairings = 1

\* C5: aggregate_verify returns the same result when the public keys, or the
\* signatures, are aggregated beforehand and handed in as a one-element
\* list; the lists may differ in length, and when both convert the result
\* is the pairing check of their two group sums
C5_PreAggregationKeepsResult ==
    ret.op = "aggregate_verify"
        => /\ pubkey_aggregate(public_keys).ok
                => aggregate_verify(<<Projective(pubkey_aggregate(public_keys).pt)>>,
                                    signatures, message).res = ret.res
           /\ aggregate(signatures).ok
                => aggregate_verify(public_keys,
                                    <<Projective(aggregate(signatures).pt)>>,
                                    message).res = ret.res
           /\ (public_keys # <<>> /\ signatures # <<>>
                   /\ AllConvert(public_keys) /\ AllConvert(signatures))
                => ret.res = OkBool(verify_signature(GroupSum(public_keys),
                                                     GroupSum(signatures), message))

C5_Witness ==
    /\ ret.op = "aggregate_verify"
    /\ Len(public_keys) = MaxKeys
    /\ Len(signatures) = 1
    /\ AllConvert(public_keys)
    /\ \A i \in 1..Len(public_keys) : public_keys[i].v # Identity
    /\ ret.res = OkBool(TRUE)

\* C6: aggregate_verify with an empty list of public keys or an empty list of
\* signatures, the other list non-empty and converting, returns
\* Err(EmptyAggregation) and performs no pairing check
C6_EmptyListFailsVerify ==
    (/\ ret.op = "aggregate_verify"
     /\ \/ public_keys = <<>> /\ signatures # <<>> /\ AllConvert(signatures)
        \/ signatures = <<>> /\ public_keys # <<>> /\ AllConvert(public_keys))
        => ret.res = ErrBool(EmptyAggregation) /\ ret.pairings = 0

C6_Witness ==
    /\ ret.op = "aggregate_verify"
    /\ signatures = <<>>
    /\ Len(public_keys) = MaxKeys
    /\ AllConvert(public_keys)
    /\ ~ret.res.ok

\* C7 as claimed: aggregate_verify and par_aggregate_verify return Ok(false)
\* when one signer's signature was replaced by that signer's signature over
\* another message, and when the message verified is not the message signed
C7_FailedVerificationIsOkFalse ==
    (/\ ret.op \in {"aggregate_verify", "par_aggregate_verify"}
     /\ \/ OneResigned(message)
        \/ \E m \in Messages \ {message} : AllSigned(m))
        => ret.res = OkBool(FALSE)

\* C8: par_aggregate_verify returns the Result aggregate_verify returns on
\* the same public keys, signatures and message, empty lists and elements
\* that do not convert included
C8_ParAggregateVerifyEqualsAggregateVerify ==
    ret.op = "par_aggregate_verify"
        => ret.res = aggregate_verify(public_keys, signatures, message).res

C8_Witness ==
    /\ ret.op = "par_aggregate_verify"
    /\ signatures = <<>>
    /\ public_keys # <<>>
    /\ ~AllConvert(public_keys)
    /\ ret.res = ErrBool(PointDecodingError)


(***************************************************************************)
(* One public key and one signature, in any representation                 *)
(***************************************************************************)
\* BLS_SIGNATURE_COMPRESSED_SIZE, BLS_SIGNATURE_AFFINE_SIZE
BLS_SIGNATURE_COMPRESSED_SIZE == 96
BLS_SIGNATURE_AFFINE_SIZE == 192

\* `[0; SIZE]`, and the number a byte array stands for in the encodings above
ZeroBytes(size) == [i \in 1..size |-> 0]

RECURSIVE BytesValue(_)
BytesValue(bytes) ==
    IF \A i \in 1..Len(bytes) : bytes[i] = 0 THEN 0
    ELSE 256 * BytesValue(SubSeq(bytes, 1, Len(bytes) - 1)) + bytes[Len(bytes)]

\* every value the byte forms can hold
AffineBytes == 0..(2 * GroupOrder)
CompressedBytes == 0..(GroupOrder + 1)

AllForms ==
    {Projective(p) : p \in Points}
        \cup {Affine(b) : b \in AffineBytes}
        \cup {Compressed(b) : b \in CompressedBytes}

Forms == {"projective", "affine", "compressed"}

\* the point p in the given representation
InForm(p, form) ==
    CASE form = "projective" -> Projective(p)
      [] form = "affine" -> Affine(AffineEncode(p))
      [] form = "compressed" -> Compressed(CompressedEncode(p))

OkForm(x) == [ok |-> TRUE, val |-> x, err |-> "none"]
ErrForm(e) == [ok |-> FALSE, val |-> AffineDefault, err |-> e]

\* the From / TryFrom conversions between the three representations: the
\* bytes are decoded to the point, which is encoded in the target form
convert(x, form) ==
    LET p == try_as_projective(x)
    IN  IF ~p.ok THEN ErrForm(p.err) ELSE OkForm(InForm(p.pt, form))

\* VerifiablePubkey::verify_signature(&self, signature, message)
pubkey_verify_signature(pk, sig, m) ==
    LET pubkey_projective == try_as_projective(pk)
        signature_projective == try_as_projective(sig)
    IN  IF ~pubkey_projective.ok THEN ErrBool(pubkey_projective.err)
        ELSE IF ~signature_projective.ok THEN ErrBool(signature_projective.err)
        ELSE OkBool(verify_signature(pubkey_projective.pt,
                                     signature_projective.pt, m))

\* a plausible slip: the signature's inner value is handed on unconverted
verify_unconverted(sig, pk, m) ==
    pubkey_verify_signature(pk, Projective(sig.v), m)

\* a plausible slip: the verification is run against a fixed message,
\* whatever message was passed
verify_drops_message(sig, pk, m) ==
    LET signature_projective == try_as_projective(sig)
    IN  IF ~signature_projective.ok THEN ErrBool(signature_projective.err)
        ELSE pubkey_verify_signature(pk, Projective(signature_projective.pt), 1)

\* VerifiableSignature::verify(&self, pubkey, message)
verify(sig, pk, m) ==
    LET signature_projective == try_as_projective(sig)
    IN  IF ~signature_projective.ok THEN ErrBool(signature_projective.err)
        ELSE pubkey_verify_signature(pk, Projective(signature_projective.pt), m)

ConvertSignatureOp(form) ==
    CASE form = "projective" -> "signature_to_projective"
      [] form = "affine" -> "signature_to_affine"
      [] form = "compressed" -> "signature_to_compressed"

ConvertPubkeyOp(form) ==
    CASE form = "projective" -> "pubkey_to_projective"
      [] form = "affine" -> "pubkey_to_affine"
      [] form = "compressed" -> "pubkey_to_compressed"

\* the caller holds one public key, one signature and a message
InitSingle ==
    /\ public_keys \in {<<x>> : x \in AllForms}
    /\ signatures \in {<<x>> : x \in AllForms}
    /\ message \in Messages
    /\ self = identity
    /\ pos = 0
    /\ ret = NoCall
    /\ OthersIdle

\* signature.verify(&pubkey, message)
CallVerify ==
    /\ ret' = Call("verify", self, signatures,
                   verify(signatures[1], public_keys[1], message), 0)
    /\ UNCHANGED <<others, signatures, public_keys, message, self, pos>>

\* pubkey.verify_signature(&signature, message)
CallVerifySignature ==
    /\ ret' = Call("verify_signature", self, signatures,
                   pubkey_verify_signature(public_keys[1], signatures[1], message), 0)
    /\ UNCHANGED <<others, signatures, public_keys, message, self, pos>>

\* the signature is converted to another representation and, when that
\* succeeds, the caller goes on with the converted value
ConvertSignature ==
    \E form \in Forms \ {signatures[1].form} :
        LET r == convert(signatures[1], form)
        IN  /\ ret' = Call(ConvertSignatureOp(form), self, signatures, r, 0)
            /\ signatures' = IF r.ok THEN <<r.val>> ELSE signatures
            /\ UNCHANGED <<others, public_keys, message, self, pos>>

\* the same for the public key
ConvertPubkey ==
    \E form \in Forms \ {public_keys[1].form} :
        LET r == convert(public_keys[1], form)
        IN  /\ ret' = Call(ConvertPubkeyOp(form), self, public_keys, r, 0)
            /\ public_keys' = IF r.ok THEN <<r.val>> ELSE public_keys
            /\ UNCHANGED <<others, signatures, message, self, pos>>

NextSingle ==
    \/ CallVerify
    \/ CallVerifySignature
    \/ CallAggregateVerify
    \/ ConvertSignature
    \/ ConvertPubkey

SpecSingle == InitSingle /\ [][NextSingle]_vars


(***************************************************************************)
(* Properties of one public key and one signature                          *)
(***************************************************************************)
SignatureConvertOps == {ConvertSignatureOp(f) : f \in Forms}
PubkeyConvertOps == {ConvertPubkeyOp(f) : f \in Forms}

\* C11 as claimed: verify, verify_signature and aggregate_verify do not
\* return Ok(true) when the (aggregated) signature or the (aggregated)
\* public key is the identity element
C11_IdentityNeverAccepted ==
    (/\ ret.op \in {"verify", "verify_signature", "aggregate_verify"}
     /\ AllConvert(public_keys) /\ AllConvert(signatures)
     /\ \/ GroupSum(signatures) = Identity
        \/ GroupSum(public_keys) = Identity)
        => ret.res # OkBool(TRUE)

\* C12: a conversion from the native form never fails; a conversion that
\* succeeds keeps the point, and converting its result back to the form it
\* came from gives the value it came from: decode(encode(p)) = p for every
\* point p, encode(decode(b)) = b for every byte value b that decodes
C12_ConversionsRoundTrip ==
    ret.op \in SignatureConvertOps \cup PubkeyConvertOps
        => /\ ret.arg[1].form = "projective" => ret.res.ok
           /\ ret.res.ok
                => /\ try_as_projective(ret.res.val) = try_as_projective(ret.arg[1])
                   /\ convert(ret.res.val, ret.arg[1].form) = OkForm(ret.arg[1])

C12_Witness ==
    /\ ret.op = "signature_to_projective"
    /\ ret.arg[1].form = "compressed"
    /\ ret.res.ok
    /\ ret.res.val.v # Identity
    /\ signatures = <<ret.res.val>>

\* C13: the defaults of the affine and of the compressed form are the
\* all-zero arrays of 192 and of 96 bytes, and converting either to the
\* native form fails with a point-decoding error, for signatures and for
\* public keys
C13_DefaultsDoNotDecode ==
    /\ AffineDefault = Affine(BytesValue(ZeroBytes(BLS_SIGNATURE_AFFINE_SIZE)))
    /\ CompressedDefault
           = Compressed(BytesValue(ZeroBytes(BLS_SIGNATURE_COMPRESSED_SIZE)))
    /\ (/\ ret.op \in {"signature_to_projective", "pubkey_to_projective"}
        /\ ret.arg[1] \in {AffineDefault, CompressedDefault})
           => ret.res = ErrForm(PointDecodingError)

C13_Witness ==
    /\ ret.op = "signature_to_projective"
    /\ ret.arg = <<AffineDefault>>
    /\ signatures = <<AffineDefault>>
    /\ ~ret.res.ok

\* C14: verify returns the same Result for each of the nine combinations of
\* the form of the signature and the form of the public key
C14_VerifyIgnoresRepresentation ==
    (ret.op = "verify" /\ AllConvert(signatures) /\ AllConvert(public_keys))
        => \A fs \in Forms : \A fk \in Forms :
               verify(InForm(try_as_projective(signatures[1]).pt, fs),
                      InForm(try_as_projective(public_keys[1]).pt, fk),
                      message) = ret.res

C14_Witness ==
    /\ ret.op = "verify"
    /\ signatures[1].form = "compressed"
    /\ public_keys[1].form = "affine"
    /\ try_as_projective(public_keys[1]).ok
    /\ try_as_projective(public_keys[1]).pt # Identity
    /\ ret.res = OkBool(TRUE)

\* C16: pubkey.verify_signature(signature, message) and
\* signature.verify(pubkey, message) return the Result that aggregate_verify
\* returns on the one-element lists of that public key and that signature
C16_VerifyEqualsAggregateVerifyOfOne ==
    ret.op \in {"verify", "verify_signature"}
        => ret.res = aggregate_verify(public_keys, signatures, message).res

C16_Witness ==
    /\ ret.op = "verify_signature"
    /\ signatures[1].form = "affine"
    /\ public_keys[1].form = "compressed"
    /\ ret.res = OkBool(FALSE)

\* C17: a keypair's signature over a message verifies under the keypair's
\* public key against that message with Ok(true) and against every other
\* message with Ok(false), by verify_signature and by verify
C17_SignThenVerify ==
    \A sk \in Secrets : \A m \in Messages :
        (/\ ret.op \in {"verify_signature", "verify"}
         /\ public_keys = <<Projective(from_secret(sk))>>
         /\ signatures = <<Projective(sign(sk, m))>>)
            => ret.res = OkBool(m = message)

C17_Witness ==
    /\ ret.op = "verify_signature"
    /\ \E sk \in Secrets : \E m \in Messages \ {message} :
          /\ public_keys = <<Projective(from_secret(sk))>>
          /\ signatures = <<Projective(sign(sk, m))>>
    /\ ret.res = OkBool(FALSE)

(***************************************************************************)
(* Lists whose elements are in different representations                   *)
(***************************************************************************)
\* the elements of a heterogeneous list (`&[&dyn AsSignatureProjective]`,
\* `&[&dyn AsPubkeyProjective]`): a native point, an affine and a compressed
\* encoding of a point, and the all-zero compressed default
MixedInputs ==
    {Projective(1),
     Affine(AffineEncode(GroupOrder - 1)),
     Compressed(CompressedEncode(1)),
     CompressedDefault}

InitMixed ==
    /\ public_keys \in ListsUpTo(MixedInputs, MaxKeys)
    /\ signatures \in ListsUpTo(MixedInputs, MaxKeys)
    /\ message \in Messages
    /\ self = identity
    /\ pos = 0
    /\ ret = NoCall
    /\ OthersIdle

NextMixed ==
    \/ CallAggregate
    \/ CallParAggregate
    \/ CallAggregateWith
    \/ CallAggregateVerify
    \/ CallParAggregateVerify

SpecMixed == InitMixed /\ [][NextMixed]_vars

\* the list with every element replaced by the native form of its point
AsProjective(xs) ==
    [i \in 1..Len(xs) |-> Projective(try_as_projective(xs[i]).pt)]

\* C15: on lists whose elements each denote a point, in any of the three
\* representations and mixed at will, aggregate, aggregate_with and
\* aggregate_verify return what they return on the lists of the same points
\* in the native form
C15_ListsIgnoreRepresentation ==
    /\ (ret.op = "aggregate" /\ AllConvert(ret.arg))
           => ret.res = aggregate(AsProjective(ret.arg))
    /\ (ret.op = "aggregate_with" /\ AllConvert(ret.arg))
           => [self |-> self, res |-> ret.res]
                  = aggregate_with(ret.self0, AsProjective(ret.arg))
    /\ (/\ ret.op = "aggregate_verify"
        /\ AllConvert(signatures) /\ AllConvert(public_keys))
           => ret.res = aggregate_verify(AsProjective(public_keys),
                                         AsProjective(signatures), message).res

C15_Witness ==
    /\ ret.op = "aggregate_verify"
    /\ Len(signatures) = 2
    /\ signatures[1].form # signatures[2].form
    /\ Len(public_keys) = 2
    /\ public_keys[1].form # public_keys[2].form
    /\ AllConvert(public_keys)
    /\ GroupSum(public_keys) # Identity
    /\ ret.res = OkBool(TRUE)

\* C20: if an element of a non-empty list given to aggregate, par_aggregate,
\* aggregate_verify or par_aggregate_verify does not convert to a point, the
\* call returns Err
C20_InvalidElementIsAnError ==
    /\ (ret.op \in {"aggregate", "par_aggregate"} /\ ~AllConvert(ret.arg))
           => ~ret.res.ok
    /\ (/\ ret.op \in {"aggregate_verify", "par_aggregate_verify"}
        /\ ~AllConvert(signatures) \/ ~AllConvert(public_keys))
           => ~ret.res.ok

C20_Witness ==
    /\ ret.op = "aggregate"
    /\ Len(ret.arg) = 2
    /\ try_as_projective(ret.arg[1]).ok
    /\ ~try_as_projective(ret.arg[2]).ok
    /\ ret.res = ErrPoint(PointDecodingError)

(***************************************************************************)
(* The aggregate of the caller after a call, and the aggregate returned     *)
(***************************************************************************)
\* C28 as claimed: when aggregate_with returns Err, self holds the value it
\* held before the call
C28_AggregateWithIsAtomic ==
    (ret.op = "aggregate_with" /\ ~ret.res.ok) => self = ret.self0

\* C29: par_aggregate_with leaves self alone when it returns Err, on the
\* empty list and on a list with an element that does not convert, and adds
\* the group sum of the list to self when it returns Ok
C29_ParAggregateWithFrame ==
    ret.op = "par_aggregate_with"
        => /\ ~ret.res.ok => self = ret.self0
           /\ ret.res.ok => self = Add(ret.self0, GroupSum(ret.arg))
           /\ ret.res.ok <=> (ret.arg # <<>> /\ AllConvert(ret.arg))

C29_Witness ==
    /\ ret.op = "par_aggregate_with"
    /\ ret.self0 # identity
    /\ Len(ret.arg) = 2
    /\ ret.res.ok
    /\ GroupSum(ret.arg) # Identity
    /\ self # ret.self0

\* C30 as claimed: aggregate and par_aggregate of a non-empty list of
\* signatures that each decode to a point other than the identity element
\* return a point other than the identity element
C30_AggregateIsNeverIdentity ==
    (/\ ret.op \in {"aggregate", "par_aggregate"}
     /\ ret.arg # <<>>
     /\ AllConvert(ret.arg)
     /\ \A i \in 1..Len(ret.arg) : try_as_projective(ret.arg[i]).pt # Identity)
        => ret.res.ok /\ ret.res.pt # identity

(***************************************************************************)
(* par_aggregate_verify, task by task                                      *)
(*                                                                         *)
(* rayon::join(a, b) runs the two closures, on one thread one after the    *)
(* other or on two threads at once, and returns the pair of their results  *)
(* when both have returned.                                                *)
(***************************************************************************)
\* the elements of the lists: a point, and a value that does not convert
JoinInputs == {Projective(1), AffineDefault}

InitJoin ==
    /\ public_keys \in ListsUpTo(JoinInputs, MaxKeys)
    /\ signatures \in ListsUpTo(JoinInputs, MaxKeys)
    /\ message \in Messages
    /\ self = identity
    /\ pos = 0
    /\ ret = NoCall
    /\ OthersIdle

\* par_aggregate_verify is called: rayon::join is handed the two closures
StartJoin ==
    /\ join.pc = "idle"
    /\ join' = [join EXCEPT !.pc = "join"]
    /\ UNCHANGED <<signatures, public_keys, message, self, pos, ret, text,
                 envelopeVars, addressVars>>

\* the first closure: `|| PubkeyProjective::par_aggregate(public_keys)`
PubkeyTask ==
    /\ join.pc = "join"
    /\ "pubkey" \notin join.done
    /\ \E r \in pubkey_par_aggregate(public_keys) :
          join' = [join EXCEPT !.aggregate_pubkey_res = r,
                               !.done = @ \cup {"pubkey"}]
    /\ UNCHANGED <<signatures, public_keys, message, self, pos, ret, text,
                 envelopeVars, addressVars>>

\* the second closure: `|| SignatureProjective::par_aggregate(signatures)`
SignatureTask ==
    /\ join.pc = "join"
    /\ "signature" \notin join.done
    /\ \E r \in par_aggregate(signatures) :
          join' = [join EXCEPT !.aggregate_signature_res = r,
                               !.done = @ \cup {"signature"}]
    /\ UNCHANGED <<signatures, public_keys, message, self, pos, ret, text,
                 envelopeVars, addressVars>>

\* rayon::join returns, then the two `?` and the pairing check run and
\* par_aggregate_verify returns
FinishJoin ==
    /\ join.pc = "join"
    /\ join.done = {"pubkey", "signature"}
    /\ LET r == verify_aggregates(join.aggregate_pubkey_res,
                                  join.aggregate_signature_res, message)
       IN  /\ join' = [join EXCEPT !.pc = "returned", !.pairings = r.pairings]
           /\ ret' = Call("par_aggregate_verify", self, signatures,
                          r.res, r.pairings)
    /\ UNCHANGED <<signatures, public_keys, message, self, pos, text,
                 envelopeVars, addressVars>>

NextJoin == StartJoin \/ PubkeyTask \/ SignatureTask \/ FinishJoin

SpecJoin == InitJoin /\ [][NextJoin]_vars

\* C27: in par_aggregate_verify the two aggregations run as independent
\* tasks, in either order; a pairing check is performed only when both have
\* completed, and none when either returned an error; when both failed the
\* error returned is the one of the public-key aggregation
C27_JoinThenOnePairing ==
    /\ join.pc = "join" => join.pairings = 0 /\ ret = NoCall
    /\ join.pc = "returned"
           => /\ join.done = {"pubkey", "signature"}
              /\ ret.op = "par_aggregate_verify"
              /\ join.pairings
                    = IF join.aggregate_pubkey_res.ok
                         /\ join.aggregate_signature_res.ok THEN 1 ELSE 0
              /\ ret.res.ok <=> join.pairings = 1
              /\ ~join.aggregate_pubkey_res.ok
                    => ret.res = ErrBool(join.aggregate_pubkey_res.err)

\* both aggregations failed, each with its own error, the signatures first
C27_Witness ==
    /\ join.pc = "returned"
    /\ join.aggregate_pubkey_res = ErrPoint(EmptyAggregation)
    /\ join.aggregate_signature_res = ErrPoint(PointDecodingError)
    /\ ret.res = ErrBool(EmptyAggregation)

(***************************************************************************)
(* The base64 text form of Signature and SignatureCompressed                *)
(*                                                                         *)
(* A byte array is a sequence of numbers 0..255, a string the sequence of  *)
(* the ASCII codes of its characters.                                      *)
(***************************************************************************)
\* BLS_SIGNATURE_COMPRESSED_BASE64_SIZE, BLS_SIGNATURE_AFFINE_BASE64_SIZE
BLS_SIGNATURE_COMPRESSED_BASE64_SIZE == 128
BLS_SIGNATURE_AFFINE_BASE64_SIZE == 256

BYTES_LEN(form) ==
    IF form = "affine" THEN BLS_SIGNATURE_AFFINE_SIZE
    ELSE BLS_SIGNATURE_COMPRESSED_SIZE

BASE64_LEN(form) ==
    IF form = "affine" THEN BLS_SIGNATURE_AFFINE_BASE64_SIZE
    ELSE BLS_SIGNATURE_COMPRESSED_BASE64_SIZE

\* a plausible slip: the URL-safe alphabet, with '-' and '_'
Base64CharUrlSafe(sextet) ==
    IF sextet < 26 THEN 65 + sextet
    ELSE IF sextet < 52 THEN 97 + (sextet - 26)
    ELSE IF sextet < 62 THEN 48 + (sextet - 52)
    ELSE IF sextet = 62 THEN 45
    ELSE 95

\* the standard alphabet: A-Z, a-z, 0-9, '+', '/'; the padding character '='
Base64Char(sextet) ==
    IF sextet < 26 THEN 65 + sextet
    ELSE IF sextet < 52 THEN 97 + (sextet - 26)
    ELSE IF sextet < 62 THEN 48 + (sextet - 52)
    ELSE IF sextet = 62 THEN 43
    ELSE 47

Base64Pad == 61

IsBase64Char(c) ==
    \/ c \in 65..90
    \/ c \in 97..122
    \/ c \in 48..57
    \/ c \in {43, 47}

Base64Sextet(c) ==
    IF c \in 65..90 THEN c - 65
    ELSE IF c \in 97..122 THEN c - 97 + 26
    ELSE IF c \in 48..57 THEN c - 48 + 52
    ELSE IF c = 43 THEN 62
    ELSE 63

Pow64(k) == IF k = 0 THEN 1 ELSE IF k = 1 THEN 64 ELSE IF k = 2 THEN 4096 ELSE 262144

Pow256(k) == IF k = 0 THEN 1 ELSE IF k = 1 THEN 256 ELSE 65536

\* BASE64_STANDARD.encode(bytes): each group of three bytes gives four
\* characters; a last group of one or two bytes is padded with '='
Base64Encode(bytes) ==
    LET n == Len(bytes)
        byte(j) == IF j <= n THEN bytes[j] ELSE 0
        group(g) == byte(3 * g + 1) * 65536 + byte(3 * g + 2) * 256 + byte(3 * g + 3)
    IN  [i \in 1..(4 * ((n + 2) \div 3)) |->
            LET g == (i - 1) \div 4
                k == (i - 1) % 4
            IN  IF k >= 2 /\ 3 * g + k > n THEN Base64Pad
                ELSE Base64Char((group(g) \div Pow64(3 - k)) % 64)]

\* the number of '=' a string ends with, at most two
Base64Padding(s) ==
    IF Len(s) >= 2 /\ s[Len(s)] = Base64Pad /\ s[Len(s) - 1] = Base64Pad THEN 2
    ELSE IF Len(s) >= 1 /\ s[Len(s)] = Base64Pad THEN 1
    ELSE 0

\* the strings BASE64_STANDARD.decode accepts: whole groups of four, alphabet
\* characters up to the padding, and no set bit in what the padding cuts off
Base64Valid(s) ==
    LET pad == Base64Padding(s)
    IN  /\ Len(s) % 4 = 0
        /\ \A i \in 1..(Len(s) - pad) : IsBase64Char(s[i])
        /\ pad = 1 => Base64Sextet(s[Len(s) - 1]) % 4 = 0
        /\ pad = 2 => Base64Sextet(s[Len(s) - 2]) % 16 = 0

\* BASE64_STANDARD.decode(s) of a string it accepts
Base64Decode(s) ==
    LET pad == Base64Padding(s)
        sextet(i) == IF s[i] = Base64Pad THEN 0 ELSE Base64Sextet(s[i])
        group(g) == sextet(4 * g + 1) * 262144 + sextet(4 * g + 2) * 4096
                        + sextet(4 * g + 3) * 64 + sextet(4 * g + 4)
    IN  [j \in 1..(3 * (Len(s) \div 4) - pad) |->
            (group((j - 1) \div 3) \div Pow256(2 - ((j - 1) % 3))) % 256]

\* Signature(bytes), SignatureCompressed(bytes) as byte arrays
SignatureBytes(form, bytes) == [form |-> form, bytes |-> bytes]

OkParsed(x) == [ok |-> TRUE, val |-> x, err |-> "none"]

\* the failure of from_str: the error taxonomy has "wrong length" under
\* PointDecodingError and names no other kind for a string that does not
\* parse, so every failure of from_str is this one outcome
ErrParsed ==
    [ok |-> FALSE, val |-> SignatureBytes("none", <<>>), err |-> PointDecodingError]

\* impl fmt::Display: `BASE64_STANDARD.encode(self.0)`
to_string(x) == Base64Encode(x.bytes)

\* impl_from_str!: the length of the string is checked, the string is
\* decoded, the length of the decoded bytes is checked; the bytes are not
\* looked at
from_str(form, s) ==
    IF Len(s) # BASE64_LEN(form) THEN ErrParsed
    ELSE IF ~Base64Valid(s) THEN ErrParsed
    ELSE LET decoded == Base64Decode(s)
         IN  IF Len(decoded) # BYTES_LEN(form) THEN ErrParsed
             ELSE OkParsed(SignatureBytes(form, decoded))

\* the byte arrays handed to to_string: every combination of three byte
\* values in the first place, the last place and the places between; the
\* all-zero default and the array of ones of signature_from_str among them
ByteSamples == {0, 1, 255}

SampleBytes(size) ==
    {[i \in 1..size |-> IF i = 1 THEN a ELSE IF i = size THEN c ELSE b] :
        a \in ByteSamples, b \in ByteSamples, c \in ByteSamples}

TextForms == {"affine", "compressed"}

SampleSignatures ==
    UNION {{SignatureBytes(form, bytes) : bytes \in SampleBytes(BYTES_LEN(form))} :
              form \in TextForms}

\* strings handed to from_str, made from the text form of a value: the text
\* form, without its last group, with one group more, with padding in its
\* last group, with a character outside the alphabet, and no string at all
TextsOf(x) ==
    LET s == to_string(x)
        Truncated(t) == SubSeq(t, 1, Len(t) - 4)
        Extended(t) == t \o <<65, 65, 65, 65>>
        Padded(t) == SubSeq(t, 1, Len(t) - 3) \o <<65, Base64Pad, Base64Pad>>
        Garbled(t) == [t EXCEPT ![2] = 33]
    IN  {<<>>, s, Truncated(s), Extended(s), Padded(s), Garbled(s),
         Garbled(Truncated(s))}

InitText ==
    /\ \E x \in SampleSignatures :
          /\ signatures = <<x>>
          /\ text \in TextsOf(x)
    /\ public_keys = <<>>
    /\ message = 1
    /\ self = identity
    /\ pos = 0
    /\ ret = NoCall
    /\ join = NoJoin
    /\ EnvelopeIdle
    /\ AddressIdle

\* signatures[1].to_string()
CallToString ==
    /\ text' = to_string(signatures[1])
    /\ ret' = Call("to_string", self, signatures, OkParsed(signatures[1]), 0)
    /\ UNCHANGED <<signatures, public_keys, message, self, pos, join,
                 envelopeVars, addressVars>>

\* Signature::from_str(&text), SignatureCompressed::from_str(&text): the
\* caller keeps the value parsed; ret.arg is the type parsed for, the string
\* and the value the caller held before
CallFromStr ==
    \E form \in TextForms :
        LET r == from_str(form, text)
        IN  /\ ret' = Call("from_str", self, <<form, text, signatures[1]>>, r, 0)
            /\ signatures' = IF r.ok THEN <<r.val>> ELSE signatures
            /\ UNCHANGED <<public_keys, message, self, pos, join, text,
                              envelopeVars, addressVars>>

NextText == CallToString \/ CallFromStr

SpecText == InitText /\ [][NextText]_vars

\* C21: for every Signature and every SignatureCompressed, a valid point or
\* not, from_str of its text form returns Ok of the value itself
C21_TextRoundTrip ==
    (/\ ret.op = "from_str"
     /\ ret.arg[1] = ret.arg[3].form
     /\ ret.arg[2] = to_string(ret.arg[3]))
        => /\ ret.res = OkParsed(ret.arg[3])
           /\ signatures = <<ret.arg[3]>>

\* the all-zero array, which is no point, came back from its text form
C21_Witness ==
    /\ ret.op = "from_str"
    /\ ret.res.ok
    /\ signatures[1].form = "affine"
    /\ signatures[1].bytes = ZeroBytes(BLS_SIGNATURE_AFFINE_SIZE)
    /\ ~try_as_projective(Affine(BytesValue(signatures[1].bytes))).ok
    /\ text = to_string(signatures[1])

(***************************************************************************)
(* Address::new_unique (address/src/lib.rs)                                *)
(*                                                                         *)
(* Unsigned integers are written as their big-endian bytes, so that they   *)
(* keep their width: the counter is eight bytes, `I.fetch_add(1) as u32`   *)
(* its last four.                                                          *)
(***************************************************************************)
ADDRESS_BYTES == 32
\* `core::mem::size_of::<u32>()`
COUNTER_BYTES == 4

\* wrapping `+ 1` on the big-endian bytes of an unsigned integer
RECURSIVE WrappingIncrement(_)
WrappingIncrement(bytes) ==
    IF bytes = <<>> THEN <<>>
    ELSE LET n == Len(bytes)
         IN  IF bytes[n] < 255 THEN [bytes EXCEPT ![n] = @ + 1]
             ELSE WrappingIncrement(SubSeq(bytes, 1, n - 1)) \o <<0>>

\* the value is the largest of its width: `+ 1` overflows
IsMax(bytes) == \A k \in 1..Len(bytes) : bytes[k] = 255

\* `as u32` of a u64: the low four bytes
AsT(bytes) == SubSeq(bytes, Len(bytes) - COUNTER_BYTES + 1, Len(bytes))

\* `Ord` of byte arrays of one length: lexicographic
BytesLess(a, b) ==
    \E k \in 1..Len(a) :
        /\ \A j \in 1..(k - 1) : a[j] = b[j]
        /\ a[k] < b[k]

\* `hash.finish().to_ne_bytes()[0..COUNTER_BYTES]` of a DefaultHasher that
\* was fed the words written with write_u32: SipHash-1-3 with the keys 0, 0
\* over the native-endian bytes of the words, on a little-endian target.  A
\* 64-bit value is the tuple of its eight bytes, the lowest first.  Every
\* intermediate value is bound once (`x \in {e}`) before it is used.
HashFinish(written) ==
    LET Bit(x, k) == (x \div (2 ^ k)) % 2
        BitXor(x, y) ==
            ((Bit(x, 0) + Bit(y, 0)) % 2) + 2 * ((Bit(x, 1) + Bit(y, 1)) % 2)
            + 4 * ((Bit(x, 2) + Bit(y, 2)) % 2) + 8 * ((Bit(x, 3) + Bit(y, 3)) % 2)
            + 16 * ((Bit(x, 4) + Bit(y, 4)) % 2) + 32 * ((Bit(x, 5) + Bit(y, 5)) % 2)
            + 64 * ((Bit(x, 6) + Bit(y, 6)) % 2) + 128 * ((Bit(x, 7) + Bit(y, 7)) % 2)
        Xor64(x, y) ==
            CHOOSE r \in
                {<<BitXor(a[1], b[1]), BitXor(a[2], b[2]), BitXor(a[3], b[3]),
                   BitXor(a[4], b[4]), BitXor(a[5], b[5]), BitXor(a[6], b[6]),
                   BitXor(a[7], b[7]), BitXor(a[8], b[8])>> :
                     a \in {x}, b \in {y}} : TRUE
        \* the carry out of the k lowest bytes of a + b
        Carry(a, b, k) ==
            IF k = 0 THEN 0
            ELSE IF \E j \in 1..k :
                        /\ a[j] + b[j] >= 256
                        /\ \A l \in (j + 1)..k : a[l] + b[l] >= 255
                 THEN 1 ELSE 0
        \* wrapping_add
        Add64(x, y) ==
            CHOOSE r \in
                {[k \in 1..8 |-> (a[k] + b[k] + Carry(a, b, k - 1)) % 256] :
                     a \in {x}, b \in {y}} : TRUE
        \* rotate_left(n)
        Rotl64(x, n) ==
            CHOOSE r \in
                {[k \in 1..8 |->
                     ((a[((k - 1 - (n \div 8) + 16) % 8) + 1] * (2 ^ (n % 8))) % 256)
                     + (a[((k - 2 - (n \div 8) + 16) % 8) + 1]
                            \div (2 ^ (8 - (n % 8))))] :
                     a \in {x}} : TRUE
        \* one round of compression on the state <<v0, v1, v2, v3>>, in four
        \* quarters
        Quarter1(v) == <<Add64(v[1], v[2]), Rotl64(v[2], 13),
                         Add64(v[3], v[4]), Rotl64(v[4], 16)>>
        Quarter2(v) == <<Rotl64(v[1], 32), Xor64(v[2], v[1]),
                         v[3], Xor64(v[4], v[3])>>
        Quarter3(v) == <<Add64(v[1], v[4]), Rotl64(v[2], 17),
                         Add64(v[3], v[2]), Rotl64(v[4], 21)>>
        Quarter4(v) == <<v[1], Xor64(v[2], v[3]),
                         Rotl64(v[3], 32), Xor64(v[4], v[1])>>
        SipRound(v) ==
            CHOOSE r \in
                {Quarter4(c) : c \in
                    {Quarter3(b) : b \in
                        {Quarter2(a) : a \in {Quarter1(u) : u \in {v}}}}} : TRUE
        \* a word of the message goes in: v3 ^= m, one round, v0 ^= m
        Compress(v, m) ==
            CHOOSE r \in
                {<<Xor64(w[1], m), w[2], w[3], w[4]>> :
                     w \in {SipRound(<<v[1], v[2], v[3], Xor64(v[4], m)>>)}} : TRUE
        \* "somepseudorandomlygeneratedbytes" xor the keys 0, 0
        start == <<<<117, 101, 115, 112, 101, 109, 111, 115>>,
                   <<109, 111, 100, 110, 97, 114, 111, 100>>,
                   <<97, 114, 101, 110, 101, 103, 121, 108>>,
                   <<115, 101, 116, 121, 98, 100, 101, 116>>>>
        \* the bytes written: each u32 with its lowest byte first
        Byte(words, p) ==
            IF p <= COUNTER_BYTES * Len(words)
            THEN words[((p - 1) \div COUNTER_BYTES) + 1]
                      [COUNTER_BYTES - ((p - 1) % COUNTER_BYTES)]
            ELSE 0
        Block(words, k) == [j \in 1..8 |-> Byte(words, 8 * (k - 1) + j)]
        Whole(words) == (COUNTER_BYTES * Len(words)) \div 8
        Last(words) ==
            [j \in 1..8 |-> IF j = 8 THEN (COUNTER_BYTES * Len(words)) % 256
                            ELSE Byte(words, 8 * Whole(words) + j)]
        \* step k on the state: the whole words of the message, its last
        \* word with the length, then `v2 ^= 0xff` and the three final rounds
        Step(v, words, k) ==
            IF k <= Whole(words) THEN Compress(v, Block(words, k))
            ELSE IF k = Whole(words) + 1 THEN Compress(v, Last(words))
            ELSE IF k = Whole(words) + 2
            THEN SipRound(<<v[1], v[2],
                            Xor64(v[3], <<255, 0, 0, 0, 0, 0, 0, 0>>), v[4]>>)
            ELSE SipRound(v)
        RECURSIVE After(_, _)
        After(words, k) ==
            IF k = 0 THEN start
            ELSE CHOOSE r \in {Step(v, words, k) : v \in {After(words, k - 1)}} : TRUE
    IN  CHOOSE h \in
            {SubSeq(Xor64(Xor64(d[1], d[2]), Xor64(d[3], d[4])), 1, COUNTER_BYTES) :
                 d \in {After(words, Whole(words) + 4) : words \in {written}}} : TRUE

\* the words `hash.write_u32(i); i += 1;` writes in the first n rounds of the
\* loop, with wrapping addition
RECURSIVE Written(_, _)
Written(i, n) ==
    IF n = 0 THEN <<>> ELSE <<i>> \o Written(WrappingIncrement(i), n - 1)

\* the number of rounds of the loop over `b[COUNTER_BYTES..].chunks_mut(..)`
Chunks == (ADDRESS_BYTES - COUNTER_BYTES) \div COUNTER_BYTES

\* `i += 1` overflows in one of the rounds
RECURSIVE Overflows(_, _)
Overflows(i, n) ==
    IF n = 0 THEN FALSE
    ELSE IsMax(i) \/ Overflows(WrappingIncrement(i), n - 1)

\* the address built from the counter value i: its big-endian bytes, then
\* one chunk of the hash for each round
RECURSIVE Fill(_, _)
Fill(i, n) ==
    IF n = 0 THEN <<>> ELSE Fill(i, n - 1) \o HashFinish(Written(i, n))

\* without the feature std the rest of the address is the lowest byte of the
\* counter value, `(i & 0xFF) as u8`, in every place
AddressOf(i, with_std) ==
    i \o (IF with_std THEN Fill(i, Chunks)
          ELSE [k \in 1..(ADDRESS_BYTES - COUNTER_BYTES) |-> i[COUNTER_BYTES]])

\* counter values the program reaches: the first one, `AtomicU64::new(1)`,
\* the one after 2^32 - 2 calls and the one after 2^32 - 1 calls
FirstCounter == <<0, 0, 0, 0, 0, 0, 0, 1>>
CounterBeforeWrap == <<0, 0, 0, 0, 255, 255, 255, 255>>
CounterAfterWrap == <<0, 0, 0, 1, 0, 0, 0, 0>>

\* the first call of the program returned the address of the counter value 1
FirstReturn(with_std) ==
    [address |-> AddressOf(AsT(FirstCounter), with_std), seen |-> 0]

IdleThread == [pc |-> "idle", i |-> 0, seen |-> 0]

InitAddress ==
    /\ std \in BOOLEAN
    /\ \/ I = FirstCounter /\ returned = <<>>
       \/ I = WrappingIncrement(FirstCounter) /\ returned = <<FirstReturn(std)>>
       \/ I = CounterBeforeWrap /\ returned = <<FirstReturn(std)>>
       \/ I = CounterAfterWrap /\ returned = <<FirstReturn(std)>>
    /\ threads = [t \in 1..NumThreads |-> IdleThread]
    /\ signatures = <<>>
    /\ public_keys = <<>>
    /\ message = 1
    /\ self = identity
    /\ pos = 0
    /\ ret = NoCall
    /\ join = NoJoin
    /\ text = <<>>
    /\ EnvelopeIdle

\* the calls of new_unique on record: returned, in progress or panicked
Begun ==
    Cardinality({t \in 1..NumThreads : threads[t].pc # "idle"}) + Len(returned)

\* `I.fetch_add(1) as T` of a call by thread t: one atomic step; the call
\* remembers how many addresses had been returned when it began
FetchAdd(t) ==
    /\ threads[t].pc = "idle"
    /\ Begun < MaxCalls
    /\ threads' = [threads EXCEPT ![t] =
                      [pc |-> "fetched", i |-> AsT(I), seen |-> Len(returned)]]
    /\ I' = WrappingIncrement(I)
    /\ UNCHANGED <<signatures, public_keys, message, self, pos, ret, join, text,
                   envelopeVars, returned, std>>

\* the rest of the call: the address is built and returned
Return(t) ==
    /\ threads[t].pc = "fetched"
    /\ returned' = Append(returned, [address |-> AddressOf(threads[t].i, std),
                                     seen |-> threads[t].seen])
    /\ threads' = [threads EXCEPT ![t] = IdleThread]
    /\ ret' = Call("new_unique", self, <<t>>,
                   [ok |-> TRUE, address |-> AddressOf(threads[t].i, std)], 0)
    /\ UNCHANGED <<signatures, public_keys, message, self, pos, join, text,
                   envelopeVars, I, std>>

\* the rest of the call in a build with the feature std and with overflow
\* checks: `i += 1` panics
Panic(t) ==
    /\ threads[t].pc = "fetched"
    /\ std
    /\ Overflows(threads[t].i, Chunks)
    /\ threads' = [threads EXCEPT ![t].pc = "panicked"]
    /\ UNCHANGED <<signatures, public_keys, message, self, pos, ret, join, text,
                   envelopeVars, I, returned, std>>

NextAddress ==
    \E t \in 1..NumThreads : FetchAdd(t) \/ Return(t) \/ Panic(t)

SpecAddress == InitAddress /\ [][NextAddress]_vars

\* C26 as claimed: any two calls of new_unique return different addresses,
\* and a call returns an address greater than every address that had been
\* returned when it began
C26_NewUniqueIsFresh ==
    /\ \A j \in 1..Len(returned) : \A k \in 1..Len(returned) :
          j # k => returned[j].address # returned[k].address
    /\ \A j \in 1..Len(returned) : \A k \in 1..returned[j].seen :
          BytesLess(returned[k].address, returned[j].address)

(***************************************************************************)
(* Off-chain messages (offchain-message/src/lib.rs, serialization.rs)      *)
(*                                                                         *)
(* Byte arrays and vectors are sequences of numbers 0..255.                *)
(***************************************************************************)
\* SanitizeError
ValueOutOfBounds == "ValueOutOfBounds"
InvalidValue == "InvalidValue"

PREAMBLE_AND_BODY_MAX_LEDGER == 1232
\* `u16::MAX as usize`
PREAMBLE_AND_BODY_MAX_EXTENDED == 65535

\* OffchainMessage::SIGNING_DOMAIN, b"\xffsolana offchain"
SIGNING_DOMAIN ==
    <<255, 115, 111, 108, 97, 110, 97, 32, 111, 102, 102, 99, 104, 97, 105, 110>>

\* OffchainMessage::HEADER_LEN, header::outer_header_len()
HEADER_LEN == Len(SIGNING_DOMAIN) + 1

\* v0::OffchainMessage::HEADER_LEN, header::v0_fixed_header_len()
V0_HEADER_LEN == 32 + 1 + 1 + 2

\* the sizes of a public key and of a signature
PUBKEY_BYTES == 32
SIGNATURE_BYTES == 64

\* header::total_message_size(signer_count, message_len)
total_message_size(signer_count, message_len) ==
    HEADER_LEN + V0_HEADER_LEN + signer_count * PUBKEY_BYTES + message_len

\* enum MessageFormat, `#[repr(u8)]`
RestrictedAscii == 0
LimitedUtf8 == 1
ExtendedUtf8 == 2

\* is_printable_ascii(data)
is_printable_ascii(bytes) == \A i \in 1..Len(bytes) : bytes[i] \in 32..126

\* is_utf8(data): `std::str::from_utf8(data).is_ok()`, the well-formed byte
\* sequences of UTF-8
RECURSIVE is_utf8(_)
is_utf8(bytes) ==
    LET n == Len(bytes)
        b(i) == bytes[i]
        cont(i) == i <= n /\ b(i) \in 128..191
        rest(k) == is_utf8(SubSeq(bytes, k + 1, n))
    IN  IF n = 0 THEN TRUE
        ELSE IF b(1) < 128 THEN rest(1)
        ELSE IF b(1) \in 194..223 THEN cont(2) /\ rest(2)
        ELSE IF b(1) = 224 THEN n >= 2 /\ b(2) \in 160..191 /\ cont(3) /\ rest(3)
        ELSE IF b(1) \in (225..236) \cup {238, 239}
             THEN cont(2) /\ cont(3) /\ rest(3)
        ELSE IF b(1) = 237 THEN n >= 2 /\ b(2) \in 128..159 /\ cont(3) /\ rest(3)
        ELSE IF b(1) = 240
             THEN n >= 2 /\ b(2) \in 144..191 /\ cont(3) /\ cont(4) /\ rest(4)
        ELSE IF b(1) \in 241..243 THEN cont(2) /\ cont(3) /\ cont(4) /\ rest(4)
        ELSE IF b(1) = 244
             THEN n >= 2 /\ b(2) \in 128..143 /\ cont(3) /\ cont(4) /\ rest(4)
        ELSE FALSE

\* v0::OffchainMessage
V0(application_domain, format, message_signers, body) ==
    [application_domain |-> application_domain, format |-> format,
     signers |-> message_signers, message |-> body]

NoMessage == V0(<<>>, RestrictedAscii, <<>>, <<>>)

OkMessage(m) == [ok |-> TRUE, val |-> m, err |-> "none"]
ErrMessage(e) == [ok |-> FALSE, val |-> NoMessage, err |-> e]

\* serialization::detect_format(total_size, message): a format, or the error
detect_format(total_size, body) ==
    IF total_size <= PREAMBLE_AND_BODY_MAX_LEDGER
    THEN IF is_printable_ascii(body) THEN [ok |-> TRUE, format |-> RestrictedAscii, err |-> "none"]
         ELSE IF is_utf8(body) THEN [ok |-> TRUE, format |-> LimitedUtf8, err |-> "none"]
         ELSE [ok |-> FALSE, format |-> RestrictedAscii, err |-> InvalidValue]
    ELSE IF total_size <= PREAMBLE_AND_BODY_MAX_EXTENDED
    THEN IF is_utf8(body) THEN [ok |-> TRUE, format |-> ExtendedUtf8, err |-> "none"]
         ELSE [ok |-> FALSE, format |-> RestrictedAscii, err |-> InvalidValue]
    ELSE [ok |-> FALSE, format |-> RestrictedAscii, err |-> ValueOutOfBounds]

\* OffchainMessage::new_with_params(0, application_domain, signers, message),
\* serialization::new_v0_with_params: validate_signers, validate_body,
\* detect_format
new_with_params(application_domain, message_signers, body) ==
    IF message_signers = <<>> \/ Len(message_signers) > 255
    THEN ErrMessage(ValueOutOfBounds)
    ELSE IF body = <<>> THEN ErrMessage(InvalidValue)
    ELSE LET format == detect_format(
                 total_message_size(Len(message_signers), Len(body)), body)
         IN  IF ~format.ok THEN ErrMessage(format.err)
             ELSE OkMessage(V0(application_domain, format.format,
                               message_signers, body))

\* the concatenation of the byte arrays of a list
RECURSIVE Concat(_)
Concat(arrays) ==
    IF arrays = <<>> THEN <<>> ELSE Head(arrays) \o Concat(Tail(arrays))

\* `(n as u16).to_le_bytes()`, `u16::from_le_bytes`
U16ToLe(n) == <<(n % 65536) % 256, (n % 65536) \div 256>>
U16FromLe(lo, hi) == lo + 256 * hi

OkBytes(b) == [ok |-> TRUE, val |-> b, err |-> "none"]

\* OffchainMessage::serialize: the signing domain, the version 0, then
\* serialization::serialize_v0, whose two assertions panic on a message that
\* has no body, no signers or more than u8::MAX signers; the panic is the
\* outcome with err "panic"
message_serialize(m) ==
    IF m.message = <<>> \/ m.signers = <<>> \/ Len(m.signers) > 255
    THEN [ok |-> FALSE, val |-> <<>>, err |-> "panic"]
    ELSE OkBytes(SIGNING_DOMAIN \o <<0>>
                     \o m.application_domain
                     \o <<m.format>>
                     \o <<Len(m.signers) % 256>>
                     \o Concat(m.signers)
                     \o U16ToLe(Len(m.message))
                     \o m.message)

\* validate_format_constraints(format, total_size, message)
validate_format_constraints(format, total_size, body) ==
    CASE format = RestrictedAscii ->
             total_size <= PREAMBLE_AND_BODY_MAX_LEDGER /\ is_printable_ascii(body)
      [] format = LimitedUtf8 ->
             total_size <= PREAMBLE_AND_BODY_MAX_LEDGER /\ is_utf8(body)
      [] format = ExtendedUtf8 ->
             total_size <= PREAMBLE_AND_BODY_MAX_EXTENDED /\ is_utf8(body)

\* serialization::deserialize_v0(data): parse_application_domain,
\* parse_message_format, parse_signer_count, parse_signers,
\* parse_message_length, parse_message_body, validate_format_constraints
deserialize_v0(d) ==
    LET n == Len(d)
        signer_count == d[34]
        signers_end == 34 + signer_count * PUBKEY_BYTES
        message_len == U16FromLe(d[signers_end + 1], d[signers_end + 2])
        body == SubSeq(d, signers_end + 3, n)
        message_signers ==
            [k \in 1..signer_count |->
                SubSeq(d, 34 + (k - 1) * PUBKEY_BYTES + 1, 34 + k * PUBKEY_BYTES)]
    IN  IF n < V0_HEADER_LEN THEN ErrMessage(ValueOutOfBounds)
        ELSE IF d[33] \notin {RestrictedAscii, LimitedUtf8, ExtendedUtf8}
        THEN ErrMessage(InvalidValue)
        ELSE IF signer_count = 0 THEN ErrMessage(InvalidValue)
        ELSE IF n < signers_end THEN ErrMessage(ValueOutOfBounds)
        ELSE IF n < signers_end + 2 THEN ErrMessage(ValueOutOfBounds)
        ELSE IF message_len = 0 THEN ErrMessage(InvalidValue)
        ELSE IF signers_end + 2 + message_len # n THEN ErrMessage(InvalidValue)
        ELSE IF ~validate_format_constraints(d[33],
                    total_message_size(signer_count, message_len), body)
        THEN ErrMessage(InvalidValue)
        ELSE OkMessage(V0(SubSeq(d, 1, 32), d[33], message_signers, body))

\* OffchainMessage::deserialize(data): the signing domain is skipped, the
\* version must be 0
message_deserialize(d) ==
    IF Len(d) <= HEADER_LEN THEN ErrMessage(ValueOutOfBounds)
    ELSE IF d[Len(SIGNING_DOMAIN) + 1] # 0 THEN ErrMessage(ValueOutOfBounds)
    ELSE deserialize_v0(SubSeq(d, Len(SIGNING_DOMAIN) + 2, Len(d)))

(***************************************************************************)
(* Envelope (offchain-message/src/envelope.rs)                             *)
(***************************************************************************)
\* the keypairs of the signers: keypair1, keypair2
Keypairs == 1..2

\* `keypair.pubkey().to_bytes()`: different keypairs, different keys
pubkey(k) == [i \in 1..PUBKEY_BYTES |-> k]

\* `signer.sign_message(&message_bytes)`: the signature is a function of the
\* keypair and of the bytes signed
sign_message(k, bytes) ==
    LET n == Len(bytes)
    IN  [i \in 1..SIGNATURE_BYTES |->
            IF i = 1 THEN k
            ELSE IF i = 2 THEN n % 256
            ELSE IF i <= 2 + PUBKEY_BYTES THEN bytes[n + 3 - i]
            ELSE bytes[((i * 7) % n) + 1]]

\* `signature.verify(pubkey.as_ref(), &message_bytes)`: the signature is the
\* one the keypair of the public key gives for these bytes
signature_verify(sig, key, bytes) ==
    \E k \in Keypairs : key = pubkey(k) /\ sig = sign_message(k, bytes)

\* `Signature::from([0u8; 64])`
EmptySignature == [i \in 1..SIGNATURE_BYTES |-> 0]

\* struct Envelope
Envelope(m, sigs) == [signatures |-> sigs, message |-> m]

NoEnvelope == Envelope(NoMessage, <<>>)

OkEnvelope(e) == [ok |-> TRUE, val |-> e, err |-> "none"]
ErrEnvelope(e) == [ok |-> FALSE, val |-> NoEnvelope, err |-> e]

\* a plausible slip: the signers are looked up in the message's list, in
\* whatever order they come
sign_all_any_order(m, ks) ==
    IF Len(ks) # Len(m.signers) THEN ErrEnvelope(ValueOutOfBounds)
    ELSE IF \E i \in 1..Len(ks) :
                \A j \in 1..Len(m.signers) : pubkey(ks[i]) # m.signers[j]
    THEN ErrEnvelope(InvalidValue)
    ELSE IF ~message_serialize(m).ok THEN ErrEnvelope(message_serialize(m).err)
    ELSE OkEnvelope(Envelope(m,
             [i \in 1..Len(ks) |->
                 sign_message(ks[i], message_serialize(m).val)]))

\* Envelope::sign_all(message, signers)
sign_all(m, ks) ==
    IF Len(ks) # Len(m.signers) THEN ErrEnvelope(ValueOutOfBounds)
    ELSE IF \E i \in 1..Len(ks) : pubkey(ks[i]) # m.signers[i]
    THEN ErrEnvelope(InvalidValue)
    ELSE IF ~message_serialize(m).ok THEN ErrEnvelope(message_serialize(m).err)
    ELSE OkEnvelope(Envelope(m,
             [i \in 1..Len(ks) |->
                 sign_message(ks[i], message_serialize(m).val)]))

\* a plausible slip: the lengths are not compared and zip stops at the
\* shorter list
verify_all_zip(e) ==
    LET message_bytes == message_serialize(e.message).val
        n == IF Len(e.signatures) < Len(e.message.signers)
             THEN Len(e.signatures) ELSE Len(e.message.signers)
    IN  IF ~message_serialize(e.message).ok
        THEN ErrBool(message_serialize(e.message).err)
        ELSE IF \E i \in 1..n :
               ~signature_verify(e.signatures[i], e.message.signers[i],
                                 message_bytes)
        THEN OkBool(FALSE)
        ELSE IF ~message_deserialize(message_bytes).ok
        THEN ErrBool(message_deserialize(message_bytes).err)
        ELSE OkBool(TRUE)

\* Envelope::verify_all(&self), feature "verify"
verify_all(e) ==
    LET message_bytes == message_serialize(e.message).val
    IN  IF Len(e.signatures) # Len(e.message.signers) THEN OkBool(FALSE)
        ELSE IF ~message_serialize(e.message).ok
        THEN ErrBool(message_serialize(e.message).err)
        ELSE IF \E i \in 1..Len(e.signatures) :
                    ~signature_verify(e.signatures[i], e.message.signers[i],
                                      message_bytes)
        THEN OkBool(FALSE)
        ELSE IF ~message_deserialize(message_bytes).ok
        THEN ErrBool(message_deserialize(message_bytes).err)
        ELSE OkBool(TRUE)

\* a plausible slip: the signatures are written from the last to the first
serialize_reversed(e) ==
    IF ~message_serialize(e.message).ok THEN message_serialize(e.message)
    ELSE OkBytes(<<Len(e.signatures) % 256>>
                     \o Concat([i \in 1..Len(e.signatures) |->
                                   e.signatures[Len(e.signatures) + 1 - i]])
                     \o message_serialize(e.message).val)

\* Envelope::serialize(&self): the signature count in one byte, the
\* signatures, the message
serialize(e) ==
    IF ~message_serialize(e.message).ok THEN message_serialize(e.message)
    ELSE OkBytes(<<Len(e.signatures) % 256>>
                     \o Concat(e.signatures)
                     \o message_serialize(e.message).val)

\* Envelope::deserialize(data), feature "verify"
deserialize(d) ==
    IF d = <<>> THEN ErrEnvelope(ValueOutOfBounds)
    ELSE LET sig_count == d[1]
             required_size == 1 + sig_count * SIGNATURE_BYTES
             sigs == [k \in 1..sig_count |->
                         SubSeq(d, 1 + (k - 1) * SIGNATURE_BYTES + 1,
                                1 + k * SIGNATURE_BYTES)]
             m == message_deserialize(SubSeq(d, required_size + 1, Len(d)))
         IN  IF sig_count = 0 THEN ErrEnvelope(InvalidValue)
             ELSE IF Len(d) < required_size THEN ErrEnvelope(ValueOutOfBounds)
             ELSE IF ~m.ok THEN ErrEnvelope(m.err)
             ELSE IF Len(sigs) # Len(m.val.signers) THEN ErrEnvelope(InvalidValue)
             ELSE LET verified == verify_all(Envelope(m.val, sigs))
                  IN  IF ~verified.ok THEN ErrEnvelope(verified.err)
                      ELSE IF ~verified.b THEN ErrEnvelope(InvalidValue)
                      ELSE OkEnvelope(Envelope(m.val, sigs))

\* the application domain and the message bodies of the runs: ASCII "Hi" and
\* the two UTF-8 bytes of U+00E9
SampleDomain == [i \in 1..32 |-> 238]
SampleBodies == {<<72, 105>>, <<195, 169>>}

\* the lists of one to MaxSigners signers
SignerLists == UNION {[1..n -> Keypairs] : n \in 1..MaxSigners}

\* a list, and the lists one step away from it: the last element dropped, an
\* element appended, an element replaced, the order reversed
NearLists(list, other) ==
    {list, SubSeq(list, 1, Len(list) - 1), Append(list, other),
     [i \in 1..Len(list) |-> list[Len(list) + 1 - i]]}
        \cup {[list EXCEPT ![i] = other] : i \in 1..Len(list)}

\* Envelope::new(message, signatures) over a message of new_with_params; the
\* signatures are those of the message's signers or a list one step away from
\* them, the signers at hand are the message's or a list one step away
InitEnvelope ==
    /\ \E ks \in SignerLists, body \in SampleBodies, other \in Keypairs :
          LET m == new_with_params(SampleDomain,
                                   [i \in 1..Len(ks) |-> pubkey(ks[i])], body).val
              sigs == [i \in 1..Len(ks) |->
                          sign_message(ks[i], message_serialize(m).val)]
          IN  /\ envelope \in {Envelope(m, l) : l \in NearLists(sigs, EmptySignature)}
              /\ signers \in NearLists(ks, other)
    /\ data = <<>>
    /\ signatures = <<>>
    /\ public_keys = <<>>
    /\ message = 1
    /\ self = identity
    /\ pos = 0
    /\ ret = NoCall
    /\ join = NoJoin
    /\ text = <<>>
    /\ AddressIdle

\* Envelope::sign_all(envelope.message, signers)
CallSignAll ==
    LET r == sign_all(envelope.message, signers)
    IN  /\ ret' = Call("sign_all", envelope, <<signers>>, r, 0)
        /\ envelope' = IF r.ok THEN r.val ELSE envelope
        /\ UNCHANGED <<signatures, public_keys, message, self, pos, join, text,
                       signers, data, addressVars>>

\* envelope.verify_all()
CallVerifyAll ==
    /\ ret' = Call("verify_all", envelope, <<>>, verify_all(envelope), 0)
    /\ UNCHANGED <<signatures, public_keys, message, self, pos, join, text,
                   envelopeVars, addressVars>>

\* envelope.serialize()
CallSerialize ==
    LET r == serialize(envelope)
    IN  /\ ret' = Call("serialize", envelope, <<>>, r, 0)
        /\ data' = IF r.ok THEN r.val ELSE data
        /\ UNCHANGED <<signatures, public_keys, message, self, pos, join, text,
                       envelope, signers, addressVars>>

\* the bytes, and what a sender or a channel can make of them: nothing, the
\* count byte zeroed, raised or lowered, the end cut off inside the
\* signatures, a signature byte changed, the last byte dropped
Tampered(d) ==
    IF d = <<>> THEN {d}
    ELSE {d, <<>>, [d EXCEPT ![1] = 0], [d EXCEPT ![1] = (@ + 1) % 256],
          [d EXCEPT ![1] = (@ + 255) % 256],
          SubSeq(d, 1, d[1] * SIGNATURE_BYTES),
          [d EXCEPT ![2] = (@ + 1) % 256],
          SubSeq(d, 1, Len(d) - 1)}

\* Envelope::deserialize(d) of the bytes at hand or of bytes made from them
CallDeserialize ==
    \E d \in Tampered(data) :
        LET r == deserialize(d)
        IN  /\ ret' = Call("deserialize", envelope, <<d>>, r, 0)
            /\ envelope' = IF r.ok THEN r.val ELSE envelope
            /\ UNCHANGED <<signatures, public_keys, message, self, pos, join,
                           text, signers, data, addressVars>>

NextEnvelope == CallSignAll \/ CallVerifyAll \/ CallSerialize \/ CallDeserialize

SpecEnvelope == InitEnvelope /\ [][NextEnvelope]_vars

\* C23: sign_all succeeds exactly when the signers are the message's signers,
\* as many and in the same order; a different number is ValueOutOfBounds
\* whatever the keys are, a different key or order is InvalidValue; on success
\* the envelope holds one signature per message signer, in order, each the
\* signer's over the serialized message
C23_SignAllMatchesSigners ==
    ret.op = "sign_all" =>
        LET m == ret.self0.message
            ks == ret.arg[1]
            message_bytes == message_serialize(m).val
            same_keys == \A i \in 1..Len(ks) : pubkey(ks[i]) = m.signers[i]
        IN  /\ ret.res.ok <=> (Len(ks) = Len(m.signers) /\ same_keys)
            /\ Len(ks) # Len(m.signers) => ret.res.err = ValueOutOfBounds
            /\ (Len(ks) = Len(m.signers) /\ ~same_keys)
                   => ret.res.err = InvalidValue
            /\ ~ret.res.ok => envelope = ret.self0
            /\ ret.res.ok =>
                   /\ envelope = ret.res.val
                   /\ envelope.message = m
                   /\ Len(envelope.signatures) = Len(m.signers)
                   /\ \A i \in 1..Len(m.signers) :
                          /\ envelope.signatures[i]
                                 = sign_message(ks[i], message_bytes)
                          /\ signature_verify(envelope.signatures[i],
                                              m.signers[i], message_bytes)

\* two different signers signed a message of theirs, in the message's order
C23_Witness ==
    /\ ret.op = "sign_all"
    /\ ret.res.ok
    /\ Len(envelope.signatures) = 2
    /\ envelope.message.signers[1] # envelope.message.signers[2]
    /\ envelope.signatures[1] # envelope.signatures[2]

\* as many signatures as message signers, and signature i verifies under
\* message signer i over the serialized message
AllVerify(e) ==
    /\ Len(e.signatures) = Len(e.message.signers)
    /\ \A i \in 1..Len(e.signatures) :
           signature_verify(e.signatures[i], e.message.signers[i],
                            message_serialize(e.message).val)

\* C24: verify_all returns Ok(true) only if there are as many signatures as
\* message signers and each signature verifies under the signer of its
\* position; when the counts differ or a signature does not verify it returns
\* Ok(false), no error, and serialize of such an envelope succeeds
C24_VerifyAllReportsFalse ==
    /\ ret.op = "verify_all" =>
           /\ ret.res = OkBool(TRUE) => AllVerify(ret.self0)
           /\ ~AllVerify(ret.self0) => ret.res = OkBool(FALSE)
           /\ envelope = ret.self0
    /\ (ret.op = "serialize" /\ ~AllVerify(ret.self0)) =>
           /\ ret.res.ok
           /\ data = ret.res.val
           /\ data[1] = Len(ret.self0.signatures)
           /\ Len(data) = 1 + SIGNATURE_BYTES * Len(ret.self0.signatures)
                            + Len(message_serialize(ret.self0.message).val)

\* of two signatures the first verifies and the second does not: Ok(false)
C24_Witness ==
    /\ ret.op = "verify_all"
    /\ ret.res = OkBool(FALSE)
    /\ Len(envelope.signatures) = 2
    /\ Len(envelope.message.signers) = 2
    /\ signature_verify(envelope.signatures[1], envelope.message.signers[1],
                        message_serialize(envelope.message).val)
    /\ ~signature_verify(envelope.signatures[2], envelope.message.signers[2],
                         message_serialize(envelope.message).val)

\* the envelope is what sign_all returns for its message and some signers
ProducedBySignAll(e) ==
    \E ks \in SignerLists : sign_all(e.message, ks) = OkEnvelope(e)

\* C25: for an envelope e produced by sign_all, deserialize of the bytes of
\* e.serialize() returns an envelope equal to e; deserialize rejects input
\* that is empty, whose signature count is 0, that is shorter than
\* 1 + 64 * count bytes, or whose signature count is not the number of
\* signers of the message it carries
C25_EnvelopeRoundTrip ==
    ret.op = "deserialize" =>
        LET d == ret.arg[1]
            e == ret.self0
            rest == SubSeq(d, 2 + SIGNATURE_BYTES * d[1], Len(d))
        IN  /\ (ProducedBySignAll(e) /\ d = serialize(e).val)
                   => /\ ret.res = OkEnvelope(e)
                      /\ envelope = e
            /\ d = <<>> => ~ret.res.ok
            /\ (d # <<>> /\ d[1] = 0) => ~ret.res.ok
            /\ (d # <<>> /\ Len(d) < 1 + SIGNATURE_BYTES * d[1]) => ~ret.res.ok
            /\ (/\ d # <<>>
                /\ Len(d) >= 1 + SIGNATURE_BYTES * d[1]
                /\ message_deserialize(rest).ok
                /\ Len(message_deserialize(rest).val.signers) # d[1])
                   => ~ret.res.ok
            /\ ~ret.res.ok => envelope = e

\* the envelope of two different signers came back from its bytes
C25_Witness ==
    /\ ret.op = "deserialize"
    /\ ret.res.ok
    /\ ProducedBySignAll(ret.self0)
    /\ ret.arg[1] = serialize(ret.self0).val
    /\ Len(envelope.signatures) = 2
    /\ envelope.signatures[1] # envelope.signatures[2]

\* bytes whose signature count is not the signer count of their message
C25_CountMismatchReached ==
    /\ ret.op = "deserialize"
    /\ ret.arg[1] # <<>>
    /\ Len(ret.arg[1]) >= 1 + SIGNATURE_BYTES * ret.arg[1][1]
    /\ message_deserialize(SubSeq(ret.arg[1],
                                  2 + SIGNATURE_BYTES * ret.arg[1][1],
                                  Len(ret.arg[1]))).ok
    /\ Len(message_deserialize(SubSeq(ret.arg[1],
                                      2 + SIGNATURE_BYTES * ret.arg[1][1],
                                      Len(ret.arg[1]))).val.signers)
           # ret.arg[1][1]
    /\ ret.res = ErrEnvelope(InvalidValue)

====
